---- MODULE Spec2Model ----
(***************************************************************************)
(* Model of label_coco_to_img_and_split.py: process_coco_dataset splits a  *)
(* COCO annotation file into per-category image/mask pairs and routes      *)
(* images without annotations to a "clean" directory.                      *)
(*                                                                         *)
(* Init draws the annotation file from three families: InitPartition      *)
(* varies image, category and annotation records, InitMask the polygons    *)
(* and image size of one image, InitMalformed the polygons of two images   *)
(* whose references all resolve.                                           *)
(*                                                                         *)
(* A file name is a sequence of tokens ("a", ".", "jpg"), so that          *)
(* os.path.splitext is modelled by what it does.  A path is a record       *)
(* [dir, name] under the output directory.  Every source image is assumed  *)
(* to exist in the images directory (shutil.copy2 does not fail), and      *)
(* polygon coordinates are integers (int32 truncation is the identity).    *)
(***************************************************************************)
EXTENDS Integers, Sequences, FiniteSets, TLC

\* ---------------------------------------------------------------- bounds
MaxImages == 2
MaxAnns == 2
MaxPolys == 3

ImageIds == {1, 2}
CategoryIds == {1, 2}
FileNames == {<<"a", ".", "jpg">>, <<"a", ".", "png">>}
Sizes == {<<2, 3>>, <<3, 2>>}

\* flat coordinate lists x1,y1,x2,y2,...; edges are axis-aligned or diagonal
RectA == <<0, 0, 0, 1, 1, 1, 1, 0>>
RectB == <<1, 0, 1, 1, 2, 1, 2, 0>>
TwoPoints == <<0, 0, 2, 0>>
OnePoint == <<1, 1>>
OddCoords == <<0, 0, 1>>
Polygons == {RectA, RectB, TwoPoints, OnePoint, OddCoords}

CategoryTables ==
  { <<>>,
    <<[id |-> 1, name |-> "cat"]>>,
    <<[id |-> 1, name |-> "cat"], [id |-> 2, name |-> "dog"]>>,
    <<[id |-> 1, name |-> "cat"], [id |-> 2, name |-> "cat"]>>,
    <<[id |-> 1, name |-> "clean"], [id |-> 2, name |-> "cat"]>>,
    <<[id |-> 1, name |-> "cat"], [id |-> 1, name |-> "dog"]>> }

BSeq(S, n) == UNION {[1..k -> S] : k \in 0..n}

Range(s) == {s[k] : k \in DOMAIN s}

VARIABLES images, categories, annotations,
          pc, i, j, writes, dirs, class_counts, printed, total_images

vars == <<images, categories, annotations,
          pc, i, j, writes, dirs, class_counts, printed, total_images>>

\* ------------------------------------------------------- polygon raster
\* np.array(segmentation).reshape((-1, 2)): fails on an odd number of values
ReshapeFails(segmentation) == Len(segmentation) % 2 = 1

Reshape(segmentation) ==
  [k \in 1..(Len(segmentation) \div 2) |->
     <<segmentation[2 * k - 1], segmentation[2 * k]>>]

\* the closing edge list of a polygon: (last, first), (first, second), ...
Edges(poly) ==
  {<<poly[IF k = 1 THEN Len(poly) ELSE k - 1], poly[k]>> : k \in DOMAIN poly}

Min2(a, b) == IF a < b THEN a ELSE b
Max2(a, b) == IF a < b THEN b ELSE a

\* the pixel (x, y) lies on the drawn line p -> q
OnEdge(e, x, y) ==
  LET p == e[1]
      q == e[2]
  IN /\ (q[1] - p[1]) * (y - p[2]) = (q[2] - p[2]) * (x - p[1])
     /\ Min2(p[1], q[1]) <= x /\ x <= Max2(p[1], q[1])
     /\ Min2(p[2], q[2]) <= y /\ y <= Max2(p[2], q[2])

\* a ray from (x, y) towards +x crosses the edge p -> q
Crosses(e, x, y) ==
  LET p == e[1]
      q == e[2]
      dy == q[2] - p[2]
      lhs == (x - p[1]) * dy
      rhs == (y - p[2]) * (q[1] - p[1])
  IN /\ (p[2] > y) # (q[2] > y)
     /\ IF dy > 0 THEN lhs < rhs ELSE lhs > rhs

\* cv2.fillPoly(mask, [poly], 1): boundary lines plus even-odd interior
Covered(poly, x, y) ==
  \/ \E e \in Edges(poly) : OnEdge(e, x, y)
  \/ Cardinality({k \in DOMAIN poly :
        Crosses(<<poly[IF k = 1 THEN Len(poly) ELSE k - 1], poly[k]>>, x, y)}) % 2 = 1

\* cells are <<row, column>> = <<y, x>>
Cells(height, width) == (0..(height - 1)) \X (0..(width - 1))

Zeros(height, width) == [c \in Cells(height, width) |-> 0]

create_binary_mask(segmentation, height, width) ==
  LET poly == Reshape(segmentation)
  IN [c \in Cells(height, width) |-> IF Covered(poly, c[2], c[1]) THEN 1 ELSE 0]

\* faulty variant: the last polygon replaces the accumulated mask
BitwiseOrOverwrites(a, b) == [c \in DOMAIN a |-> b[c]]

\* cv2.bitwise_or on 0/1 cells
bitwise_or(a, b) == [c \in DOMAIN a |-> IF a[c] = 1 \/ b[c] = 1 THEN 1 ELSE 0]

\* ------------------------------------------------------------- lookups
LastWith(s, key, v) ==
  CHOOSE k \in DOMAIN s :
    /\ s[k][key] = v
    /\ \A m \in DOMAIN s : s[m][key] = v => m <= k

\* {rec[key]: rec[val] for rec in s}: a later record replaces an earlier one
DictOf(s, key, val) ==
  [v \in {s[k][key] : k \in DOMAIN s} |-> s[LastWith(s, key, v)][val]]

image_id_to_file == DictOf(images, "id", "file_name")

image_id_to_size ==
  [v \in {images[k].id : k \in DOMAIN images} |->
     <<images[LastWith(images, "id", v)].height,
       images[LastWith(images, "id", v)].width>>]

category_map == DictOf(categories, "id", "name")

\* faulty variant: a new key goes to the front
RECURSIVE KeysUpToPrepend(_, _)
KeysUpToPrepend(anns, n) ==
  IF n = 0 THEN <<>>
  ELSE LET p == KeysUpToPrepend(anns, n - 1)
       IN IF anns[n].image_id \in Range(p) THEN p
          ELSE <<anns[n].image_id>> \o p

\* keys of image_annotations in insertion order (first appearance)
RECURSIVE KeysUpTo(_, _)
KeysUpTo(anns, n) ==
  IF n = 0 THEN <<>>
  ELSE LET p == KeysUpTo(anns, n - 1)
       IN IF anns[n].image_id \in Range(p) THEN p
          ELSE Append(p, anns[n].image_id)

AnnKeys == KeysUpTo(annotations, Len(annotations))

\* faulty variant: the wrong field is compared
HasKeyByCategory(s, v) == \E a \in Range(s) : a.category_id = v

\* image_id in image_annotations
HasKey(s, v) == \E a \in Range(s) : a.image_id = v

\* image_annotations[image_id]
AnnsOf(image_id) ==
  LET Mine(a) == a.image_id = image_id
  IN SelectSeq(annotations, Mine)

\* --------------------------------------------------------------- paths
Path(dir, name) == [dir |-> dir, name |-> name]

HasStem(name, k) == \E m \in 1..(k - 1) : name[m] # "."

\* os.path.splitext(name)[0]: cut at the last dot that follows a non-dot
Stem(name) ==
  LET dots == {k \in DOMAIN name : name[k] = "." /\ HasStem(name, k)}
  IN IF dots = {} THEN name
     ELSE SubSeq(name, 1, (CHOOSE k \in dots : \A m \in dots : m <= k) - 1)

mask_filename(image_filename) == Stem(image_filename) \o <<".", "png">>

clean_dir == <<"clean">>
class_dir(category_name) == <<category_name>>
images_dir_dest(category_name) == <<category_name, "images">>
masks_dir(category_name) == <<category_name, "masks">>

\* ------------------------------------------------------------ counters
\* class_counts[k] += 1 on a defaultdict(int)
Incr(cc, k) ==
  IF k \in DOMAIN cc THEN [cc EXCEPT ![k] = @ + 1] ELSE cc @@ (k :> 1)

RECURSIVE SumOver(_, _)
SumOver(cc, keys) ==
  IF keys = {} THEN 0
  ELSE LET k == CHOOSE x \in keys : TRUE
       IN cc[k] + SumOver(cc, keys \ {k})

\* ------------------------------------------------------ combined mask
\* every polygon of every annotation, in loop order
RECURSIVE AllPolys(_)
AllPolys(anns) ==
  IF anns = <<>> THEN <<>>
  ELSE Head(anns).segmentation \o AllPolys(Tail(anns))

RECURSIVE Accumulate(_, _, _, _)
Accumulate(polys, n, height, width) ==
  IF n = 0 THEN Zeros(height, width)
  ELSE bitwise_or(Accumulate(polys, n - 1, height, width),
                  create_binary_mask(polys[n], height, width))

combined_mask(anns, height, width) ==
  Accumulate(AllPolys(anns), Len(AllPolys(anns)), height, width)

RasterFails(anns) == \E p \in Range(AllPolys(anns)) : ReshapeFails(p)

\* cv2.imwrite(mask_path, combined_mask * 255)
Scaled(mask) == [c \in DOMAIN mask |-> (mask[c] * 255) % 256]

\* -------------------------------------------------------------- events
CopyWrite(path, src, image_id, rec) ==
  [op |-> "copy", path |-> path, src |-> src, grid |-> <<>>,
   image_id |-> image_id, rec |-> rec]

MaskWrite(path, grid, image_id) ==
  [op |-> "mask", path |-> path, src |-> <<>>, grid |-> grid,
   image_id |-> image_id, rec |-> 0]

Notice(kind, file_name, class, image_id) ==
  [kind |-> kind, file_name |-> file_name, class |-> class, image_id |-> image_id]

\* ---------------------------------------------------------------- Init
PartitionImages ==
  BSeq([id : ImageIds, file_name : FileNames, height : {2}, width : {3}], MaxImages)

PartitionAnnotations ==
  BSeq([image_id : ImageIds, category_id : CategoryIds, segmentation : {<<RectA>>, <<RectB>>}],
       MaxAnns)

\* the polygons polys dealt to n annotations, owner[k] naming the annotation
MaskAnnotations(polys, n, owner) ==
  [a \in 1..n |->
     [image_id |-> 1, category_id |-> 1,
      segmentation |->
        LET idx == {k \in DOMAIN polys : owner[k] = a}
            Pick(m) == CHOOSE k \in idx : Cardinality({q \in idx : q < k}) = m - 1
        IN [m \in 1..Cardinality(idx) |-> polys[Pick(m)]]]]

Started ==
  /\ pc = "run"
  /\ i = 1
  /\ j = 1
  /\ writes = <<>>
  /\ dirs = {clean_dir}
  /\ class_counts = <<>>
  /\ printed = <<>>
  /\ total_images = 0

InitPartition ==
  /\ images \in PartitionImages
  /\ categories \in CategoryTables
  /\ annotations \in PartitionAnnotations
  /\ Started

InitMask ==
  /\ \E size \in Sizes :
       images = <<[id |-> 1, file_name |-> <<"a", ".", "jpg">>,
                   height |-> size[1], width |-> size[2]]>>
  /\ categories = <<[id |-> 1, name |-> "cat"]>>
  /\ \E polys \in BSeq(Polygons, MaxPolys), n \in 0..MaxAnns :
       \E owner \in [DOMAIN polys -> 1..n] :
          /\ \A k \in DOMAIN polys : \A m \in DOMAIN polys :
                k < m => owner[k] <= owner[m]
          /\ annotations = MaskAnnotations(polys, n, owner)
  /\ Started

\* two images, every reference valid, polygons well formed or not
InitMalformed ==
  /\ images = <<[id |-> 1, file_name |-> <<"a", ".", "jpg">>, height |-> 2, width |-> 3],
                [id |-> 2, file_name |-> <<"b", ".", "jpg">>, height |-> 2, width |-> 3]>>
  /\ categories = <<[id |-> 1, name |-> "cat"]>>
  /\ annotations \in
       BSeq([image_id : ImageIds, category_id : {1},
             segmentation : {<<RectA>>, <<OddCoords>>, <<TwoPoints, RectB>>}], MaxAnns)
  /\ Started

Init == InitPartition \/ InitMask \/ InitMalformed

\* ------------------------------------------------------------- actions
\* one iteration of the loop over coco_data['images']
CopyUnlabeled ==
  /\ pc = "run"
  /\ i <= Len(images)
  /\ LET img == images[i]
     IN IF ~HasKey(annotations, img.id)
        THEN /\ writes' = Append(writes,
                    CopyWrite(Path(clean_dir, img.file_name), img.file_name, img.id, i))
             /\ class_counts' = Incr(class_counts, "clean")
             /\ printed' = Append(printed,
                    Notice("unlabeled", img.file_name, "clean", img.id))
        ELSE UNCHANGED <<writes, class_counts, printed>>
  /\ i' = i + 1
  /\ UNCHANGED <<images, categories, annotations, pc, j, dirs, total_images>>

\* faulty variant: off by one
MultiClassOffByOne(category_ids) == Cardinality(category_ids) > 2

\* len(category_ids) > 1
MultiClass(category_ids) == Cardinality(category_ids) > 1

\* an uncaught KeyError / ValueError leaves process_coco_dataset
Raise ==
  /\ pc' = "error"
  /\ UNCHANGED j

\* faulty variant: the KeyError is caught and the image skipped
KeyErrorCategorySwallowed ==
  /\ j' = j + 1
  /\ UNCHANGED <<pc, writes, dirs, class_counts, printed>>

\* category_map[category_id] with an id that no category record has
KeyErrorCategory ==
  /\ Raise
  /\ UNCHANGED <<writes, dirs, class_counts, printed>>

\* faulty variant: a skipped image is counted
SkipCounted(image_id) ==
  IF image_id \notin DOMAIN image_id_to_file
  THEN /\ Raise
       /\ UNCHANGED <<writes, dirs, class_counts, printed>>
  ELSE /\ printed' = Append(printed,
              Notice("skip", image_id_to_file[image_id], "", image_id))
       /\ class_counts' = Incr(class_counts, "skipped")
       /\ j' = j + 1
       /\ UNCHANGED <<pc, writes, dirs>>

\* the branch that prints the skip notice and continues
Skip(image_id) ==
  IF image_id \notin DOMAIN image_id_to_file
  THEN /\ Raise
       /\ UNCHANGED <<writes, dirs, class_counts, printed>>
  ELSE /\ printed' = Append(printed,
              Notice("skip", image_id_to_file[image_id], "", image_id))
       /\ j' = j + 1
       /\ UNCHANGED <<pc, writes, dirs, class_counts>>

\* directories, image copy, counter, mask and notice of one class image
Assign(image_id, anns, category_name) ==
  LET made == dirs \cup {class_dir(category_name),
                         images_dir_dest(category_name),
                         masks_dir(category_name)}
  IN IF image_id \notin DOMAIN image_id_to_file
     THEN /\ Raise
          /\ dirs' = made
          /\ UNCHANGED <<writes, class_counts, printed>>
     ELSE LET image_filename == image_id_to_file[image_id]
              copy == CopyWrite(Path(images_dir_dest(category_name), image_filename),
                                image_filename, image_id, 0)
              size == image_id_to_size[image_id]
          IN /\ dirs' = made
             /\ class_counts' = Incr(class_counts, category_name)
             /\ IF RasterFails(anns)
                THEN /\ Raise
                     /\ writes' = Append(writes, copy)
                     /\ UNCHANGED printed
                ELSE /\ writes' = writes \o
                          << copy,
                             MaskWrite(Path(masks_dir(category_name),
                                            mask_filename(image_filename)),
                                       Scaled(combined_mask(anns, size[1], size[2])),
                                       image_id) >>
                     /\ printed' = Append(printed,
                          Notice("processed", image_filename, category_name, image_id))
                     /\ j' = j + 1
                     /\ UNCHANGED pc

\* one iteration of the loop over image_annotations.items()
ProcessLabeled ==
  /\ pc = "run"
  /\ i > Len(images)
  /\ j <= Len(AnnKeys)
  /\ LET image_id == AnnKeys[j]
         anns == AnnsOf(image_id)
         category_ids == {a.category_id : a \in Range(anns)}
     IN IF MultiClass(category_ids)
        THEN Skip(image_id)
        ELSE LET category_id == CHOOSE c \in category_ids : TRUE
             IN IF category_id \notin DOMAIN category_map
                THEN KeyErrorCategory
                ELSE Assign(image_id, anns, category_map[category_id])
  /\ UNCHANGED <<images, categories, annotations, i, total_images>>

\* the summary after both loops, and the return of class_counts
Summary ==
  /\ pc = "run"
  /\ i > Len(images)
  /\ j > Len(AnnKeys)
  /\ total_images' = SumOver(class_counts, DOMAIN class_counts)
  /\ pc' = "done"
  /\ UNCHANGED <<images, categories, annotations, i, j, writes, dirs,
                 class_counts, printed>>

Next == CopyUnlabeled \/ ProcessLabeled \/ Summary

Spec == Init /\ [][Next]_vars

\* ================================================================ claims
\* vocabulary of the claims, spelled from the inputs and the recorded effects
ImageIdsOfRecords == {images[k].id : k \in DOMAIN images}

AnnIndexesOf(id) == {k \in DOMAIN annotations : annotations[k].image_id = id}

NoAnnotation(id) == AnnIndexesOf(id) = {}

DistinctCategoryIds(id) == {annotations[k].category_id : k \in AnnIndexesOf(id)}

CategoryIdsOfRecords == {categories[k].id : k \in DOMAIN categories}

Terminal == pc \in {"done", "error"}

HasDuplicate(s) == \E k \in DOMAIN s : \E m \in DOMAIN s : k # m /\ s[k].id = s[m].id

InvalidInput ==
  \/ HasDuplicate(images)
  \/ HasDuplicate(categories)
  \/ \E k \in DOMAIN annotations :
       \/ annotations[k].image_id \notin ImageIdsOfRecords
       \/ annotations[k].category_id \notin CategoryIdsOfRecords

\* the labeled loop is about to handle image id
TurnOf(id) ==
  /\ pc = "run"
  /\ i > Len(images)
  /\ j <= Len(AnnKeys)
  /\ AnnKeys[j] = id

CleanCopies == {k \in DOMAIN writes : writes[k].op = "copy" /\ writes[k].path.dir = clean_dir}

ClassWrites == DOMAIN writes \ CleanCopies

IsUnlabeled(id) == \E k \in CleanCopies : writes[k].image_id = id

IsAssignedTo(id, name) ==
  /\ \E k \in DOMAIN writes :
        /\ writes[k].op = "copy"
        /\ writes[k].image_id = id
        /\ writes[k].path.dir = <<name, "images">>
  /\ \E k \in DOMAIN writes :
        /\ writes[k].op = "mask"
        /\ writes[k].image_id = id
        /\ writes[k].path.dir = <<name, "masks">>

CategoryNames == {categories[k].name : k \in DOMAIN categories}

IsAssigned(id) == \E name \in CategoryNames : IsAssignedTo(id, name)

IsSkipped(id) ==
  \E k \in DOMAIN printed : printed[k].kind = "skip" /\ printed[k].image_id = id

OutcomeCount(id) ==
  (IF IsUnlabeled(id) THEN 1 ELSE 0) + (IF IsAssigned(id) THEN 1 ELSE 0)
    + (IF IsSkipped(id) THEN 1 ELSE 0)

OneCategory(id) == ~NoAnnotation(id) /\ Cardinality(DistinctCategoryIds(id)) = 1

\* C1 (as stated): for every input, here already every input whose ids are
\* unique and whose references resolve, at the end of the run, completed or
\* failed, each image has exactly one outcome and is assigned iff it has an
\* annotation and all its annotations carry one category id.
C1_EveryRunPartitions ==
  (Terminal /\ ~InvalidInput) =>
    \A id \in ImageIdsOfRecords :
      /\ OutcomeCount(id) = 1
      /\ IsAssigned(id) <=> OneCategory(id)

\* C1 (amended): at the end of every completed run each image has exactly
\* one outcome and is assigned iff it has an annotation and all its
\* annotations carry one category id; in every state of every run no image
\* has more than one outcome and an assigned image has one category id.
C1_CompletedRunPartitions ==
  /\ \A id \in ImageIdsOfRecords :
       /\ OutcomeCount(id) <= 1
       /\ IsAssigned(id) => OneCategory(id)
  /\ pc = "done" =>
       \A id \in ImageIdsOfRecords :
         /\ OutcomeCount(id) = 1
         /\ IsAssigned(id) <=> OneCategory(id)

C1_Witness ==
  /\ pc = "done"
  /\ \E id \in ImageIdsOfRecords : IsAssigned(id)
  /\ \E id \in ImageIdsOfRecords : IsUnlabeled(id)

\* C2: handling an image whose annotations carry two or more distinct
\* category ids copies no file, writes no mask, creates no directory and
\* leaves every counter as it was.
C2_MultiClassChangesNothing ==
  [][ (\E id \in ImageIds : TurnOf(id) /\ Cardinality(DistinctCategoryIds(id)) >= 2)
        => (writes' = writes /\ dirs' = dirs /\ class_counts' = class_counts) ]_vars

C2_Witness ==
  /\ \E k \in DOMAIN printed : printed[k].kind = "skip"
  /\ writes # <<>>

\* C3: once the first loop has passed an image record without annotations,
\* exactly one copy of it to clean/<file_name> has been made, and none
\* before; nothing without annotations is written outside clean/, and
\* nothing with an annotation is copied to clean/.
C3_UnlabeledToCleanOnce ==
  /\ \A r \in DOMAIN images :
       NoAnnotation(images[r].id) =>
         LET mine == {k \in DOMAIN writes : writes[k].rec = r}
         IN /\ Cardinality(mine) = (IF i > r THEN 1 ELSE 0)
            /\ \A k \in mine :
                 /\ writes[k].op = "copy"
                 /\ writes[k].path = [dir |-> <<"clean">>, name |-> images[r].file_name]
                 /\ writes[k].src = images[r].file_name
  /\ \A k \in DOMAIN writes :
       /\ NoAnnotation(writes[k].image_id) => k \in CleanCopies
       /\ k \in CleanCopies => NoAnnotation(writes[k].image_id)

C3_Witness ==
  /\ pc = "done"
  /\ \E r \in DOMAIN images : NoAnnotation(images[r].id)
  /\ \E id \in ImageIdsOfRecords : IsAssigned(id)

\* some polygon of some annotation of image id covers column x of row y
SomePolygonCovers(id, x, y) ==
  \E k \in AnnIndexesOf(id) :
    \E m \in DOMAIN annotations[k].segmentation :
      Covered(Reshape(annotations[k].segmentation[m]), x, y)

PolygonCount(id) ==
  Cardinality({<<k, m>> \in (DOMAIN annotations) \X (1..(MaxPolys + 1)) :
     k \in AnnIndexesOf(id) /\ m \in DOMAIN annotations[k].segmentation})

\* C4: every mask written has the recorded height and width of its image,
\* and a cell is foreground (255 on disk) iff some polygon of some
\* annotation of the image covers it, whatever the order; without polygons
\* the mask is all zero.
C4_MaskIsUnionOfPolygons ==
  \A k \in DOMAIN writes :
    writes[k].op = "mask" =>
      LET id == writes[k].image_id
          grid == writes[k].grid
      IN /\ \E r \in DOMAIN images :
              /\ images[r].id = id
              /\ DOMAIN grid = (0..(images[r].height - 1)) \X (0..(images[r].width - 1))
         /\ \A c \in DOMAIN grid :
              grid[c] = (IF SomePolygonCovers(id, c[2], c[1]) THEN 255 ELSE 0)
         /\ PolygonCount(id) = 0 => \A c \in DOMAIN grid : grid[c] = 0

AnnCovers(k, x, y) ==
  \E m \in DOMAIN annotations[k].segmentation :
    Covered(Reshape(annotations[k].segmentation[m]), x, y)

C4_Witness ==
  \E k \in DOMAIN writes :
    /\ writes[k].op = "mask"
    /\ Len(annotations) >= 2
    /\ PolygonCount(writes[k].image_id) >= 3
    /\ \E c \in DOMAIN writes[k].grid : writes[k].grid[c] = 0
    /\ \E c \in DOMAIN writes[k].grid :
         writes[k].grid[c] = 255 /\ ~AnnCovers(1, c[2], c[1])
    /\ \E c \in DOMAIN writes[k].grid :
         writes[k].grid[c] = 255 /\ ~AnnCovers(Len(annotations), c[2], c[1])

Dangling(id) ==
  /\ OneCategory(id)
  /\ \A c \in DistinctCategoryIds(id) : c \notin CategoryIdsOfRecords

\* C5: handling an image whose single category id has no category record
\* ends the run in the error state without copying a file, writing a mask,
\* changing a counter or printing a notice for it; such a run never
\* completes.
C5_DanglingCategoryIsFatal ==
  /\ [](pc = "done" => \A id \in ImageIds : ~Dangling(id))
  /\ [][ (\E id \in ImageIds : TurnOf(id) /\ Dangling(id))
           => /\ pc' = "error"
              /\ writes' = writes
              /\ class_counts' = class_counts
              /\ printed' = printed ]_vars

C5_Witness ==
  /\ pc = "error"
  /\ j <= Len(AnnKeys)
  /\ Dangling(AnnKeys[j])
  /\ \E k \in DOMAIN printed : printed[k].kind = "processed"

\* C6: input with a duplicate image or category id, or with an annotation
\* whose image_id or category_id has no record, never leads to a copy, a
\* mask or a completed run.
C6_InvalidInputFailsBeforeAnyWrite ==
  InvalidInput => (writes = <<>> /\ pc # "done")

Count(name) == IF name \in DOMAIN class_counts THEN class_counts[name] ELSE 0

Notices(kind, class) ==
  {k \in DOMAIN printed : printed[k].kind = kind /\ printed[k].class = class}

AllNotices(kind) == {k \in DOMAIN printed : printed[k].kind = kind}

\* C7: at the end of a completed run the count under 'clean' is the number
\* of unlabeled images, the count under each category name is the number
\* of images assigned to it, skipped images are in no count, and the total
\* is the number of unlabeled plus assigned images.
C7_CountsMatchOutcomes ==
  pc = "done" =>
    /\ Count("clean") = Cardinality(AllNotices("unlabeled"))
    /\ \A name \in CategoryNames :
         Count(name) = Cardinality(Notices("processed", name))
    /\ DOMAIN class_counts \subseteq CategoryNames \cup {"clean"}
    /\ total_images =
         Cardinality(AllNotices("unlabeled")) + Cardinality(AllNotices("processed"))

WellFormed(polygon) == Len(polygon) % 2 = 0 /\ Len(polygon) >= 6

\* C8: no mask is produced from a polygon whose coordinate list is odd or
\* has fewer than 3 points: every mask written comes from well-formed
\* polygons only.
C8_MalformedPolygonYieldsNoMask ==
  \A k \in DOMAIN writes :
    writes[k].op = "mask" =>
      \A a \in AnnIndexesOf(writes[k].image_id) :
        \A m \in DOMAIN annotations[a].segmentation :
          WellFormed(annotations[a].segmentation[m])

FirstAnn(id) == CHOOSE k \in AnnIndexesOf(id) : \A m \in AnnIndexesOf(id) : k <= m

Labeled(k) == printed[k].kind \in {"skip", "processed"}

\* unlabeled work precedes labeled work, and labeled images are handled in
\* the order of their first annotation
HandlingOrder ==
  /\ \A k \in CleanCopies : \A m \in ClassWrites : k < m
  /\ \A k \in DOMAIN printed : \A m \in DOMAIN printed :
       /\ (printed[k].kind = "unlabeled" /\ Labeled(m)) => k < m
       /\ (Labeled(k) /\ Labeled(m) /\ k < m) =>
            FirstAnn(printed[k].image_id) < FirstAnn(printed[m].image_id)
  /\ (i <= Len(images)) => j = 1

\* the outcome an image has whatever the order of the annotation sequence
OrderFreeOutcome(id) ==
  /\ IsUnlabeled(id) <=> NoAnnotation(id)
  /\ IsSkipped(id) <=> Cardinality(DistinctCategoryIds(id)) >= 2
  /\ \A name \in CategoryNames :
       IsAssignedTo(id, name) <=>
         /\ OneCategory(id)
         /\ \E c \in DOMAIN categories :
              /\ categories[c].id \in DistinctCategoryIds(id)
              /\ categories[c].name = name
              /\ \A d \in DOMAIN categories :
                   categories[d].id = categories[c].id => d <= c

\* an image that would get an outcome if its annotations came first
Healthy(id) ==
  /\ id \in ImageIdsOfRecords
  /\ \/ NoAnnotation(id)
     \/ Cardinality(DistinctCategoryIds(id)) >= 2
     \/ /\ DistinctCategoryIds(id) \subseteq CategoryIdsOfRecords
        /\ \A a \in AnnIndexesOf(id) :
             \A m \in DOMAIN annotations[a].segmentation :
               Len(annotations[a].segmentation[m]) % 2 = 0

\* C9 (as stated): the handling order holds, and at the end of every run,
\* completed or failed, here already of every run on input whose ids are
\* unique and whose references resolve, each image has the outcome it has
\* under every order of the annotation sequence.
C9_OutcomesOrderFreeInEveryRun ==
  /\ HandlingOrder
  /\ (Terminal /\ ~InvalidInput) =>
        \A id \in ImageIds : Healthy(id) => OrderFreeOutcome(id)

\* C9 (amended): the handling order holds in every run, and at the end of
\* every completed run each image has the outcome fixed by the set of its
\* annotations, whatever their order.
C9_OutcomesOrderFreeWhenCompleted ==
  /\ HandlingOrder
  /\ pc = "done" => \A id \in ImageIdsOfRecords : OrderFreeOutcome(id)

C9_Witness ==
  /\ pc = "done"
  /\ Len(printed) = 2
  /\ Labeled(1) /\ Labeled(2)
  /\ printed[1].image_id = 2
  /\ printed[2].image_id = 1

LastWriteTo(path) ==
  CHOOSE k \in DOMAIN writes :
    /\ writes[k].path = path
    /\ \A m \in DOMAIN writes : writes[m].path = path => m <= k

\* C10: at the end of a completed run the mask file and the image file of
\* every assigned image were last written by that image, and no two images
\* wrote the same path of a class directory.
C10_NoArtifactOverwritten ==
  /\ pc = "done" =>
       \A k \in ClassWrites :
         writes[LastWriteTo(writes[k].path)].image_id = writes[k].image_id
  /\ \A k \in ClassWrites : \A m \in ClassWrites :
       writes[k].path = writes[m].path => writes[k].image_id = writes[m].image_id

====
